---- MODULE Spec2Model ----
(***************************************************************************)
(* Checkout session lifecycle and payment completion of mcp-acp-checkout:  *)
(* SessionManager (session store, cart, totals), PaymentManager (gateway   *)
(* calls, order construction) and CommerceTools (the caller-facing         *)
(* operations).  One action is one synchronous section of a handler: the   *)
(* JavaScript event loop runs a handler without interruption up to its     *)
(* next await, so an awaited gateway or hook call splits a handler into    *)
(* the step that issues the call and the step that receives its outcome.   *)
(***************************************************************************)
EXTENDS Integers, Sequences, FiniteSets, TLC

VARIABLES
  now,       \* the clock read by new Date()
  sessions,  \* SessionManager.sessions : Map<sessionId, CheckoutSession>
  heap,      \* the CartItem objects, by reference (arrays hold references)
  orders,    \* CommerceTools.orders : Map<orderId, Order>
  calls,     \* the async calls (completeCheckout, createPaymentLink) in flight
  issued,    \* the session ids generateId has returned so far
  products   \* SessionManager.products : Map<productId, Product>

vars == <<now, sessions, heap, orders, calls, issued, products>>

----------------------------------------------------------------------------
\* Bounds of the model
MaxTime == 2
MaxQty == 2
MaxRefs == 2
MaxCalls == 2

\* SessionManager.sessionTTL, in clock ticks
TTL == 1

\* Ids that generateId can return, and the absent sessionId argument
SessionIds == {"cs_1", "cs_2"}
OrderIds == {"ord_1", "ord_2"}
NoId == ""

\* config.products as given to the constructor, and the product ids a caller
\* may pass
Products ==
  ("pA" :> [id |-> "pA", price |-> 1999, currency |-> "usd"]) @@
  ("pB" :> [id |-> "pB", price |-> 2999, currency |-> "eur"])
ProductArgs == {"pA", "pB", "pX"}
QuantityArgs == {-1, 0, 1}

\* Prices the host may later give a product of the catalog: the Map holds the
\* host's own Product objects
PriceArgs == {1999, 2499}

\* BuyerInfo values a caller may pass; session.buyer starts undefined
NoBuyer == [defined |-> FALSE, email |-> ""]
BuyerArgs == {[defined |-> TRUE, email |-> ""],
              [defined |-> TRUE, email |-> "a@example.com"]}

\* Error messages thrown by the code
ErrSession == "Session not found or expired"
ErrProduct == "Product not found"
ErrQuantity == "Quantity must be positive"
ErrItem == "Item not in cart"
ErrEmptyCart == "Cannot checkout with empty cart"
ErrEmptyPayment == "Cannot create payment for empty cart"
ErrEmptyLink == "Cannot create payment link for empty cart"
ErrBuyer == "Buyer email is required"
ErrTotal == "Total must be greater than 0"
ErrStripe == "StripeError"
ErrDeclined == "Payment failed: card_declined"
ErrNotSucceeded == "Payment failed: requires_action"
ErrOrderBuyer == "Buyer information required to create order"
ErrConflict == "Payment already in progress"
ErrHook == "onPurchase failed"
Ok == "ok"
Awaiting == "awaiting"

----------------------------------------------------------------------------
\* Map helpers (Map.set, Map.delete)
Put(m, k, v) == [x \in (DOMAIN m) \cup {k} |-> IF x = k THEN v ELSE m[x]]
DelAll(m, k) == [x \in {} |-> m[x]]

Del(m, k) == [x \in (DOMAIN m) \ {k} |-> m[x]]

\* The CartItem objects an array of references denotes
Deref(h, refs) == [i \in 1..Len(refs) |-> h[refs[i]]]

RECURSIVE calculateSubtotalFrom(_, _)
calculateSubtotalFrom(items, i) ==
  IF i > Len(items) THEN 0
  ELSE items[i].price * items[i].quantity + calculateSubtotalFrom(items, i + 1)

calculateSubtotalPricesOnly(items) ==
  calculateSubtotalFrom([i \in 1..Len(items) |-> [items[i] EXCEPT !.quantity = 1]], 1)

calculateSubtotal(items) == calculateSubtotalFrom(items, 1)

NonZeroTotals ==
  [subtotal |-> 0, tax |-> 0, shipping |-> 0, discount |-> 0, total |-> 1,
   currency |-> "usd"]

ZeroTotals ==
  [subtotal |-> 0, tax |-> 0, shipping |-> 0, discount |-> 0, total |-> 0,
   currency |-> "usd"]

recalculateTotalsNoSubtotal(items) ==
  LET subtotal == calculateSubtotal(items)
      tax == 0
      shipping == 0
      discount == 0
      total == tax + shipping - discount
      currency == IF Len(items) > 0 THEN items[1].currency ELSE "usd"
  IN [subtotal |-> subtotal, tax |-> tax, shipping |-> shipping,
      discount |-> discount, total |-> total, currency |-> currency]

recalculateTotals(items) ==
  LET subtotal == calculateSubtotal(items)
      tax == 0
      shipping == 0
      discount == 0
      total == subtotal + tax + shipping - discount
      currency == IF Len(items) > 0 THEN items[1].currency ELSE "usd"
  IN [subtotal |-> subtotal, tax |-> tax, shipping |-> shipping,
      discount |-> discount, total |-> total, currency |-> currency]

----------------------------------------------------------------------------
\* Async calls.  A call that is awaiting holds the session object it read at
\* its start; when that object leaves the session map the call keeps it
\* (detached), and nothing else can reach or change it any more.
CallIds == 1..MaxCalls
NoSnap == [items |-> <<>>, buyer |-> NoBuyer, totals |-> ZeroTotals]
Idle == [pc |-> "idle", sid |-> NoId, detached |-> FALSE, snap |-> NoSnap,
         amount |-> 0, cart |-> <<>>, err |-> Ok]
HoldingPcs == {"create", "confirm"}

Detach(cs, ss, sid) ==
  [a \in DOMAIN cs |->
     IF cs[a].pc \in HoldingPcs /\ cs[a].sid = sid /\ ~cs[a].detached
       THEN [cs[a] EXCEPT !.detached = TRUE,
                          !.snap = [items |-> ss[sid].items,
                                    buyer |-> ss[sid].buyer,
                                    totals |-> ss[sid].totals]]
       ELSE cs[a]]

\* The store a handler works on: the session map, the item objects, and the
\* calls holding session objects
Store == [sessions |-> sessions, heap |-> heap, calls |-> calls]

Unmap(st, sid) ==
  IF sid \in DOMAIN st.sessions
    THEN [st EXCEPT !.sessions = Del(@, sid),
                    !.calls = Detach(@, st.sessions, sid)]
    ELSE st

\* The session object a call holds
Held(st, a) ==
  IF st.calls[a].detached THEN st.calls[a].snap
  ELSE [items |-> st.sessions[st.calls[a].sid].items,
        buyer |-> st.sessions[st.calls[a].sid].buyer,
        totals |-> st.sessions[st.calls[a].sid].totals]

\* Item objects still referenced from a session, an order or a held session
Reachable(ss, os, cs) ==
  UNION {{ss[s].items[i] : i \in 1..Len(ss[s].items)} : s \in DOMAIN ss}
  \cup UNION {{os[o].items[i] : i \in 1..Len(os[o].items)} : o \in DOMAIN os}
  \cup UNION {{cs[a].snap.items[i] : i \in 1..Len(cs[a].snap.items)} : a \in DOMAIN cs}

Collect(h, ss, os, cs) == [r \in (DOMAIN h) \cap Reachable(ss, os, cs) |-> h[r]]

FreeRefs(h) == (1..MaxRefs) \ DOMAIN h
NoRef == 0
NewRef(h) ==
  IF FreeRefs(h) = {} THEN NoRef
  ELSE CHOOSE r \in FreeRefs(h) : \A q \in FreeRefs(h) : r <= q

----------------------------------------------------------------------------
\* SessionManager

\* throw new Error(err): the method ends with the store as it is at the throw
ThrowAfterReset(st, err) ==
  [err |-> err,
   st |-> [st EXCEPT !.sessions =
             [s \in DOMAIN @ |-> [@[s] EXCEPT !.status = "pending"]]]]

Throw(st, err) == [err |-> err, st |-> st]

ExpiredAtOrAfter(session) == now >= session.expiresAt

Expired(session) == now > session.expiresAt

SMcreate(st, id) ==
  LET session == [id |-> id, status |-> "pending", items |-> <<>>,
                  buyer |-> NoBuyer, totals |-> ZeroTotals,
                  createdAt |-> now, expiresAt |-> now + TTL]
      st1 == Unmap(st, id)
  IN [st1 EXCEPT !.sessions = Put(@, id, session)]

\* get: [found, st]; an expired entry is deleted
SMgetOrCreate(st, sid) ==
  IF sid \notin DOMAIN st.sessions THEN [found |-> TRUE, st |-> SMcreate(st, sid)]
  ELSE IF Expired(st.sessions[sid]) THEN [found |-> FALSE, st |-> Unmap(st, sid)]
  ELSE [found |-> TRUE, st |-> st]

SMget(st, sid) ==
  IF sid \notin DOMAIN st.sessions THEN [found |-> FALSE, st |-> st]
  ELSE IF Expired(st.sessions[sid]) THEN [found |-> FALSE, st |-> Unmap(st, sid)]
  ELSE [found |-> TRUE, st |-> st]

IndexOfOrFirst(h, refs, pid) ==
  LET hits == {i \in 1..Len(refs) : h[refs[i]].productId = pid}
  IN IF hits = {} THEN (IF Len(refs) > 0 THEN 1 ELSE 0)
     ELSE CHOOSE i \in hits : \A j \in hits : i <= j

IndexOf(h, refs, pid) ==
  LET hits == {i \in 1..Len(refs) : h[refs[i]].productId = pid}
  IN IF hits = {} THEN 0 ELSE CHOOSE i \in hits : \A j \in hits : i <= j

\* existingItem.quantity += quantity: nothing else of the entry is touched
MergeItemRepriced(item, product, quantity) ==
  [item EXCEPT !.quantity = @ + quantity, !.price = product.price]

MergeItem(item, product, quantity) == [item EXCEPT !.quantity = @ + quantity]

\* addItem's promotion of a pending session that now has items
PromotedStatusAlways(status, n) == IF n > 0 THEN "ready" ELSE status

PromotedStatus(status, n) ==
  IF status = "pending" /\ n > 0 THEN "ready" ELSE status

\* if (existingItem): k is the index of the entry found, 0 when none
ExistingItemNever(k) == FALSE

ExistingItem(k) == k # 0

\* removeItem's demotion of a session whose cart is now empty
DemotedStatusKept(status, n) == status

DemotedStatus(status, n) == IF n = 0 THEN "pending" ELSE status

\* removeItem has no check that the product is in the cart (k is its index,
\* 0 when absent)
RemoveCheckPresent(k) == IF k = 0 THEN ErrItem ELSE Ok

RemoveCheck(k) == Ok

\* updateQuantity hands a quantity of 0 to removeItem
IsRemovalNever(quantity) == FALSE

IsRemoval(quantity) == quantity = 0

\* The SessionManager methods return [err, st]: err is Ok or the message
\* thrown, st the store afterwards
SMaddItem(st, sid, pid, quantity) ==
  LET g == SMget(st, sid) IN
  IF ~g.found THEN Throw(g.st, ErrSession)
  ELSE IF pid \notin DOMAIN products THEN Throw(g.st, ErrProduct)
  ELSE IF quantity <= 0 THEN Throw(g.st, ErrQuantity)
  ELSE
    LET s == g.st.sessions[sid]
        h == g.st.heap
        k == IndexOf(h, s.items, pid)
        h1 == IF ExistingItem(k)
                THEN [h EXCEPT ![s.items[k]] = MergeItem(@, products[pid], quantity)]
                ELSE Put(h, NewRef(h),
                         [productId |-> products[pid].id, quantity |-> quantity,
                          price |-> products[pid].price,
                          currency |-> products[pid].currency])
        items1 == IF ExistingItem(k) THEN s.items ELSE Append(s.items, NewRef(h))
        s1 == [s EXCEPT !.items = items1,
                        !.totals = recalculateTotals(Deref(h1, items1))]
        s2 == [s1 EXCEPT !.status = PromotedStatus(@, Len(s1.items))]
    IN [err |-> Ok,
        st |-> [g.st EXCEPT !.heap = h1, !.sessions[sid] = s2]]

SMremoveItem(st, sid, pid) ==
  LET g == SMget(st, sid) IN
  IF ~g.found THEN Throw(g.st, ErrSession)
  ELSE IF RemoveCheck(IndexOf(g.st.heap, g.st.sessions[sid].items, pid)) # Ok
    THEN Throw(g.st, RemoveCheck(IndexOf(g.st.heap, g.st.sessions[sid].items, pid)))
  ELSE
    LET s == g.st.sessions[sid]
        h == g.st.heap
        items1 == SelectSeq(s.items, LAMBDA r : h[r].productId # pid)
        s1 == [s EXCEPT !.items = items1,
                        !.totals = recalculateTotals(Deref(h, items1))]
        s2 == [s1 EXCEPT !.status = DemotedStatus(@, Len(s1.items))]
    IN [err |-> Ok, st |-> [g.st EXCEPT !.sessions[sid] = s2]]

SMupdateQuantity(st, sid, pid, quantity) ==
  IF IsRemoval(quantity) THEN SMremoveItem(st, sid, pid)
  ELSE
    LET g == SMget(st, sid) IN
    IF ~g.found THEN Throw(g.st, ErrSession)
    ELSE
      LET s == g.st.sessions[sid]
          h == g.st.heap
          k == IndexOf(h, s.items, pid)
      IN IF k = 0 THEN Throw(g.st, ErrItem)
         ELSE
           LET h1 == [h EXCEPT ![s.items[k]].quantity = quantity]
               s1 == [s EXCEPT !.totals = recalculateTotals(Deref(h1, s.items))]
           IN [err |-> Ok,
               st |-> [g.st EXCEPT !.heap = h1, !.sessions[sid] = s1]]

SMsetBuyerResetting(st, sid, buyer) ==
  LET g == SMget(st, sid) IN
  IF ~g.found THEN Throw(g.st, ErrSession)
  ELSE
    LET s == g.st.sessions[sid]
        s1 == [s EXCEPT !.buyer = buyer, !.status = "pending",
                        !.totals = recalculateTotals(Deref(g.st.heap, s.items))]
    IN [err |-> Ok, st |-> [g.st EXCEPT !.sessions[sid] = s1]]

SMsetBuyer(st, sid, buyer) ==
  LET g == SMget(st, sid) IN
  IF ~g.found THEN Throw(g.st, ErrSession)
  ELSE
    LET s == g.st.sessions[sid]
        s1 == [s EXCEPT !.buyer = buyer,
                        !.totals = recalculateTotals(Deref(g.st.heap, s.items))]
    IN [err |-> Ok, st |-> [g.st EXCEPT !.sessions[sid] = s1]]

SMupdateStatusTouch(st, sid, status) ==
  LET g == SMget(st, sid) IN
  IF ~g.found THEN Throw(g.st, ErrSession)
  ELSE [err |-> Ok,
        st |-> [g.st EXCEPT !.sessions[sid].status = status,
                            !.sessions[sid].expiresAt = now + TTL]]

SMupdateStatus(st, sid, status) ==
  LET g == SMget(st, sid) IN
  IF ~g.found THEN Throw(g.st, ErrSession)
  ELSE [err |-> Ok, st |-> [g.st EXCEPT !.sessions[sid].status = status]]

\* delete: the entry is removed whatever its expiresAt
SMdelete(st, sid) == Unmap(st, sid)

SMcleanupAll(st) ==
  LET stale == DOMAIN st.sessions
  IN [st EXCEPT
        !.sessions = [sid \in (DOMAIN st.sessions) \ stale |-> st.sessions[sid]],
        !.calls = [a \in DOMAIN st.calls |->
                     IF st.calls[a].sid \in stale
                       THEN Detach(st.calls, st.sessions, st.calls[a].sid)[a]
                       ELSE st.calls[a]]]

SMcleanup(st) ==
  LET stale == {sid \in DOMAIN st.sessions : Expired(st.sessions[sid])}
  IN [st EXCEPT
        !.sessions = [sid \in (DOMAIN st.sessions) \ stale |-> st.sessions[sid]],
        !.calls = [a \in DOMAIN st.calls |->
                     IF st.calls[a].sid \in stale
                       THEN Detach(st.calls, st.sessions, st.calls[a].sid)[a]
                       ELSE st.calls[a]]]

----------------------------------------------------------------------------
\* PaymentManager

\* createPaymentIntent: the validation before the gateway request
PMcreatePaymentIntent(held) ==
  IF Len(held.items) = 0 THEN ErrEmptyPayment
  ELSE IF held.totals.total <= 0 THEN ErrTotal
  ELSE Ok

\* createOrderFromSession: the items array is copied, the CartItem objects
\* in it are not; the totals object is copied
PMcreateOrderFromSession(held, sid, oid) ==
  [id |-> oid, sessionId |-> sid, items |-> held.items, buyer |-> held.buyer,
   totals |-> held.totals, status |-> "pending"]

----------------------------------------------------------------------------
\* CommerceTools
\*
\* Every handler step is an operator from the current state and the step's
\* inputs to its outcome [st, os, res, oid]: the store and the order map
\* afterwards, what the step returned or threw (Ok, Awaiting when the handler
\* is suspended at an await, or the error message), and the id of the order
\* it stored, if any.  The actions below commit these outcomes.

Out(st, os, res, oid) == [st |-> st, os |-> os, res |-> res, oid |-> oid]

HasBuyer(buyer) == buyer.defined

HasEmail(buyer) == buyer.defined /\ buyer.email # ""

CTcreateSession(id) == Out(SMcreate(Store, id), orders, Ok, "")

CTgetSession(sid) ==
  LET g == SMget(Store, sid)
  IN Out(g.st, orders, IF g.found THEN Ok ELSE "null", "")

\* if (!sessionId): addToCart and setBuyer create a session when none is named
AutoCreateAlways(sidArg) == TRUE

AutoCreate(sidArg) == sidArg = NoId

\* addToCart(sessionId, productId, quantity); id is what generateId returns
\* when sessionId is absent
CTaddToCart(sidArg, id, pid, quantity) ==
  LET st0 == IF AutoCreate(sidArg) THEN SMcreate(Store, id) ELSE Store
      sid == IF AutoCreate(sidArg) THEN id ELSE sidArg
      r == SMaddItem(st0, sid, pid, quantity)
  IN Out(r.st, orders, r.err, "")

CTremoveFromCart(sid, pid) ==
  LET r == SMremoveItem(Store, sid, pid) IN Out(r.st, orders, r.err, "")

CTupdateQuantity(sid, pid, quantity) ==
  LET r == SMupdateQuantity(Store, sid, pid, quantity)
  IN Out(r.st, orders, r.err, "")

CTsetBuyer(sidArg, id, buyer) ==
  LET st0 == IF AutoCreate(sidArg) THEN SMcreate(Store, id) ELSE Store
      sid == IF AutoCreate(sidArg) THEN id ELSE sidArg
      r == SMsetBuyer(st0, sid, buyer)
  IN Out(r.st, orders, r.err, "")

\* cancelCheckout: session.payment is never assigned anywhere, so the
\* cancelPaymentIntent branch is not taken and the handler does not await
CTcancelCheckout(sid) ==
  LET g == SMget(Store, sid)
      u == SMupdateStatus(g.st, sid, "cancelled")
  IN Out(u.st, orders, u.err, "")

\* createPaymentLink up to the awaited stripe.checkout.sessions.create,
\* run as call a
CTcreatePaymentLink(a, sid) ==
  LET g == SMget(Store, sid)
      err == IF ~g.found THEN ErrSession
             ELSE IF Len(g.st.sessions[sid].items) = 0 THEN ErrEmptyLink
             ELSE IF ~HasEmail(g.st.sessions[sid].buyer) THEN ErrBuyer
             ELSE Ok
  IN IF err # Ok THEN Out(g.st, orders, err, "")
     ELSE Out([g.st EXCEPT !.calls[a] = [Idle EXCEPT !.pc = "link", !.sid = sid]],
              orders, Awaiting, "")

\* the outcome of stripe.checkout.sessions.create
CTlinkResponse(a, ok) ==
  Out([Store EXCEPT !.calls[a] = Idle], orders, IF ok THEN Ok ELSE ErrStripe, "")

\* The status completeCheckout's catch block records
CatchStatusKept(status) == status

CatchStatus(status) == "failed"

\* catch (error) { updateStatus(sessionId, 'failed'); throw error }
\* updateStatus itself throws when the session is gone
Catch(st, os, a, err) ==
  LET sid == st.calls[a].sid
      g == SMget(st, sid)
      u == IF g.found
             THEN SMupdateStatus(g.st, sid, CatchStatus(g.st.sessions[sid].status))
             ELSE [err |-> ErrSession, st |-> g.st]
  IN Out([u.st EXCEPT !.calls[a] = Idle], os,
         IF u.err # Ok THEN u.err ELSE err, "")

\* Whether completeCheckout accepts a session in this status: it has no
\* status check
StartableUnlessFailed(status) == status # "failed"

Startable(status) == TRUE

\* completeCheckout up to the awaited stripe.paymentIntents.create, run as
\* call a
CTcompleteCheckout(a, sid) ==
  LET g == SMget(Store, sid)
      err == IF ~g.found THEN ErrSession
             ELSE IF Len(g.st.sessions[sid].items) = 0 THEN ErrEmptyCart
             ELSE IF ~HasEmail(g.st.sessions[sid].buyer) THEN ErrBuyer
             ELSE IF ~Startable(g.st.sessions[sid].status) THEN ErrConflict
             ELSE Ok
  IN IF err # Ok THEN Out(g.st, orders, err, "")
     ELSE
       LET u == SMupdateStatus(g.st, sid, "processing")
           s == u.st.sessions[sid]
           held == [items |-> s.items, buyer |-> s.buyer, totals |-> s.totals]
           v == PMcreatePaymentIntent(held)
           call == IF v = Ok
                     THEN [Idle EXCEPT !.pc = "create", !.sid = sid,
                                       !.amount = s.totals.total,
                                       !.cart = Deref(u.st.heap, s.items)]
                     ELSE [Idle EXCEPT !.pc = "rejected", !.sid = sid, !.err = v]
       IN Out([u.st EXCEPT !.calls[a] = call], orders, Awaiting, "")

\* createPaymentIntent threw before any gateway request: the rejection
\* reaches the catch block
CTrejected(a) == Catch(Store, orders, a, calls[a].err)

\* the outcome of stripe.paymentIntents.create; on success confirm is issued
CTcreateResponse(a, ok) ==
  IF ok THEN Out([Store EXCEPT !.calls[a].pc = "confirm"], orders, Awaiting, "")
  ELSE Catch(Store, orders, a, ErrStripe)

\* stripe.paymentIntents.confirm threw (ErrDeclined) or returned a status
\* other than succeeded (ErrNotSucceeded)
CTconfirmFailed(a, err) == Catch(Store, orders, a, err)

\* stripe.paymentIntents.confirm returned succeeded: the order is built and
\* stored under the id generateId returns, the session marked completed, and
\* onPurchase called
CTconfirmSucceeded(a, oid) ==
  LET sid == calls[a].sid
      held == Held(Store, a)
  IN IF ~held.buyer.defined THEN Catch(Store, orders, a, ErrOrderBuyer)
     ELSE
       LET os == Put(orders, oid, PMcreateOrderFromSession(held, sid, oid))
           u == SMupdateStatus(Store, sid, "completed")
       IN IF u.err # Ok
            THEN Catch(u.st, os, a, u.err)
            ELSE Out([u.st EXCEPT !.calls[a] = [Idle EXCEPT !.pc = "hook", !.sid = sid]],
                     os, Awaiting, oid)

\* getOrder: the stored order, or none (null)
CTgetOrder(os, oid) == IF oid \in DOMAIN os THEN <<os[oid]>> ELSE <<>>

\* the outcome of config.onPurchase(order)
CThookResponseRollback(a, ok) ==
  IF ok THEN Out([Store EXCEPT !.calls[a] = Idle], orders, Ok, "")
  ELSE Catch(Store,
             [o \in {x \in DOMAIN orders : orders[x].sessionId # calls[a].sid}
                |-> orders[o]],
             a, ErrHook)

CThookResponse(a, ok) ==
  IF ok THEN Out([Store EXCEPT !.calls[a] = Idle], orders, Ok, "")
  ELSE Catch(Store, orders, a, ErrHook)

----------------------------------------------------------------------------
\* Actions

\* The model's bounds on quantities and on live item objects
InBounds(st) ==
  /\ NoRef \notin DOMAIN st.heap
  /\ \A r \in DOMAIN st.heap : st.heap[r].quantity <= MaxQty

Commit(out) ==
  /\ InBounds(out.st)
  /\ sessions' = out.st.sessions
  /\ calls' = out.st.calls
  /\ orders' = out.os
  /\ heap' = Collect(out.st.heap, out.st.sessions, out.os, out.st.calls)
  /\ UNCHANGED <<now, products>>

\* a handler step that calls generateId('cs_') and gets id
CommitNew(out, id) == Commit(out) /\ issued' = issued \cup {id}

\* a handler step that creates no session
CommitOld(out) == Commit(out) /\ UNCHANGED issued

IdleCalls == {a \in CallIds : calls[a].pc = "idle"}
FreeCall ==
  IF IdleCalls = {} THEN 0
  ELSE CHOOSE a \in IdleCalls : \A b \in IdleCalls : a <= b

CreateSession(id) == CommitNew(CTcreateSession(id), id)

GetSession(sid) == CommitOld(CTgetSession(sid))

AddToCart(sidArg, id, pid, quantity) ==
  IF sidArg = NoId THEN CommitNew(CTaddToCart(sidArg, id, pid, quantity), id)
  ELSE CommitOld(CTaddToCart(sidArg, id, pid, quantity))

RemoveFromCart(sid, pid) == CommitOld(CTremoveFromCart(sid, pid))

UpdateQuantity(sid, pid, quantity) == CommitOld(CTupdateQuantity(sid, pid, quantity))

SetBuyer(sidArg, id, buyer) ==
  IF sidArg = NoId THEN CommitNew(CTsetBuyer(sidArg, id, buyer), id)
  ELSE CommitOld(CTsetBuyer(sidArg, id, buyer))

CancelCheckout(sid) == CommitOld(CTcancelCheckout(sid))

CreatePaymentLink(sid) ==
  /\ IdleCalls # {}
  /\ CommitOld(CTcreatePaymentLink(FreeCall, sid))

CheckoutSessionsCreate(a, ok) ==
  /\ calls[a].pc = "link"
  /\ CommitOld(CTlinkResponse(a, ok))

CompleteCheckout(sid) ==
  /\ IdleCalls # {}
  /\ CommitOld(CTcompleteCheckout(FreeCall, sid))

PaymentIntentRejected(a) ==
  /\ calls[a].pc = "rejected"
  /\ CommitOld(CTrejected(a))

PaymentIntentsCreate(a, ok) ==
  /\ calls[a].pc = "create"
  /\ CommitOld(CTcreateResponse(a, ok))

PaymentIntentsConfirmFailed(a, err) ==
  /\ calls[a].pc = "confirm"
  /\ CommitOld(CTconfirmFailed(a, err))

PaymentIntentsConfirmSucceeded(a, oid) ==
  /\ calls[a].pc = "confirm"
  /\ CommitOld(CTconfirmSucceeded(a, oid))

OnPurchase(a, ok) ==
  /\ calls[a].pc = "hook"
  /\ CommitOld(CThookResponse(a, ok))

\* the setInterval callback
Cleanup == CommitOld(Out(SMcleanup(Store), orders, Ok, ""))

\* the host calls delete on the SessionManager it gets from the export or
\* from getSessionManager(): the entry is removed whether expired or not
Delete(sid) == CommitOld(Out(SMdelete(Store, sid), orders, Ok, ""))

\* the host calls updateStatus on the SessionManager it gets from the export
\* or from getSessionManager(): any SessionStatus is written, with no
\* test of the status the session has
StatusArgs ==
  {"pending", "ready", "processing", "completed", "failed", "expired", "cancelled"}

UpdateStatus(sid, status) ==
  LET u == SMupdateStatus(Store, sid, status)
  IN CommitOld(Out(u.st, orders, u.err, ""))

\* the host changes the price of a product it gave to the constructor
CatalogPriceChange(pid, price) ==
  /\ pid \in DOMAIN products
  /\ products[pid].price # price
  /\ products' = [products EXCEPT ![pid].price = price]
  /\ UNCHANGED <<now, sessions, heap, orders, calls, issued>>

Tick ==
  /\ now < MaxTime
  /\ now' = now + 1
  /\ UNCHANGED <<sessions, heap, orders, calls, issued, products>>

----------------------------------------------------------------------------
Init ==
  /\ now = 0
  /\ sessions = <<>>
  /\ heap = <<>>
  /\ orders = <<>>
  /\ calls = [a \in CallIds |-> Idle]
  /\ issued = {}
  /\ products = Products

\* The payment specification: the operations on one session, with one catalog
\* product (plus an unknown product id), quantities 0 and 1, a buyer with an
\* email, and generateId returning an id it has not returned before
FreshOrderIds == OrderIds \ DOMAIN orders

PaySessionIds == {"cs_1"}
PayProductArgs == {"pA", "pX"}
PayQuantityArgs == {0, 1}
PayBuyerArgs == {[defined |-> TRUE, email |-> "a@example.com"]}

Next ==
  \/ \E id \in PaySessionIds \ issued : CreateSession(id)
  \/ \E sid \in PaySessionIds : GetSession(sid)
  \/ \E sid \in PaySessionIds, pid \in PayProductArgs, q \in PayQuantityArgs :
       AddToCart(sid, sid, pid, q)
  \/ \E id \in PaySessionIds \ issued, pid \in PayProductArgs, q \in PayQuantityArgs :
       AddToCart(NoId, id, pid, q)
  \/ \E sid \in PaySessionIds, pid \in PayProductArgs : RemoveFromCart(sid, pid)
  \/ \E sid \in PaySessionIds, pid \in PayProductArgs, q \in PayQuantityArgs :
       UpdateQuantity(sid, pid, q)
  \/ \E sid \in PaySessionIds, b \in PayBuyerArgs : SetBuyer(sid, sid, b)
  \/ \E id \in PaySessionIds \ issued, b \in PayBuyerArgs : SetBuyer(NoId, id, b)
  \/ \E sid \in PaySessionIds : CancelCheckout(sid)
  \/ \E sid \in PaySessionIds : CreatePaymentLink(sid)
  \/ \E a \in CallIds, ok \in BOOLEAN : CheckoutSessionsCreate(a, ok)
  \/ \E sid \in PaySessionIds : CompleteCheckout(sid)
  \/ \E a \in CallIds, ok \in BOOLEAN : PaymentIntentsCreate(a, ok)
  \/ \E a \in CallIds, err \in {ErrDeclined, ErrNotSucceeded} :
       PaymentIntentsConfirmFailed(a, err)
  \/ \E a \in CallIds, oid \in FreshOrderIds : PaymentIntentsConfirmSucceeded(a, oid)
  \/ \E a \in CallIds, ok \in BOOLEAN : OnPurchase(a, ok)
  \/ \E sid \in PaySessionIds : Delete(sid)
  \/ Cleanup
  \/ Tick

Spec == Init /\ [][Next]_vars

\* The cart specification: the session and cart operations on two session
\* ids and the whole catalog
NextCart ==
  \/ \E id \in SessionIds : CreateSession(id)
  \/ \E sid \in SessionIds : GetSession(sid)
  \/ \E sid \in SessionIds, pid \in ProductArgs, q \in QuantityArgs :
       AddToCart(sid, sid, pid, q)
  \/ \E id \in SessionIds, pid \in ProductArgs, q \in QuantityArgs :
       AddToCart(NoId, id, pid, q)
  \/ \E sid \in SessionIds, pid \in ProductArgs : RemoveFromCart(sid, pid)
  \/ \E sid \in SessionIds, pid \in ProductArgs, q \in QuantityArgs :
       UpdateQuantity(sid, pid, q)
  \/ \E sid \in SessionIds, b \in BuyerArgs : SetBuyer(sid, sid, b)
  \/ \E id \in SessionIds, b \in BuyerArgs : SetBuyer(NoId, id, b)
  \/ \E sid \in SessionIds : Delete(sid)
  \/ Cleanup
  \/ Tick

SpecCart == Init /\ [][NextCart]_vars

\* The catalog specification: one session whose cart is filled and emptied
\* while the host changes catalog prices
CatalogQuantityArgs == {1}

NextCatalog ==
  \/ \E id \in PaySessionIds \ issued : CreateSession(id)
  \/ \E sid \in PaySessionIds, pid \in ProductArgs, q \in CatalogQuantityArgs :
       AddToCart(sid, sid, pid, q)
  \/ \E sid \in PaySessionIds, pid \in ProductArgs : RemoveFromCart(sid, pid)
  \/ \E pid \in DOMAIN Products, price \in PriceArgs : CatalogPriceChange(pid, price)
  \/ \E sid \in PaySessionIds : Delete(sid)
  \/ Tick

SpecCatalog == Init /\ [][NextCatalog]_vars

\* The two-session specification: two sessions side by side, each filled with
\* one product; the first is taken through the token payment, one attempt at
\* a time, and through cancellation, while both are edited and expire
PairProductArgs == {"pA"}

NextPair ==
  \/ \E id \in SessionIds \ issued : CreateSession(id)
  \/ \E sid \in SessionIds : GetSession(sid)
  \/ \E sid \in SessionIds, pid \in PairProductArgs, q \in CatalogQuantityArgs :
       AddToCart(sid, sid, pid, q)
  \/ \E sid \in SessionIds, pid \in PairProductArgs : RemoveFromCart(sid, pid)
  \/ \E sid \in SessionIds, b \in PayBuyerArgs : SetBuyer(sid, sid, b)
  \/ \E sid \in PaySessionIds : CancelCheckout(sid)
  \/ \E sid \in PaySessionIds : IdleCalls = CallIds /\ CompleteCheckout(sid)
  \/ \E a \in CallIds, ok \in BOOLEAN : PaymentIntentsCreate(a, ok)
  \/ \E a \in CallIds : PaymentIntentsConfirmFailed(a, ErrDeclined)
  \/ \E a \in CallIds, oid \in FreshOrderIds : PaymentIntentsConfirmSucceeded(a, oid)
  \/ \E a \in CallIds, ok \in BOOLEAN : OnPurchase(a, ok)
  \/ \E sid \in SessionIds : Delete(sid)
  \/ Tick

SpecPair == Init /\ [][NextPair]_vars

\* The host specification: the payment specification together with the
\* host's direct calls of SessionManager.updateStatus
NextHost ==
  \/ Next
  \/ \E sid \in PaySessionIds, status \in StatusArgs : UpdateStatus(sid, status)

SpecHost == Init /\ [][NextHost]_vars

\* The payment specification under fair scheduling: the clock advances, the
\* cleanup interval fires, and every awaited gateway or hook call is answered
GatewayAnswers(a) ==
  \/ \E ok \in BOOLEAN : CheckoutSessionsCreate(a, ok)
  \/ \E ok \in BOOLEAN : PaymentIntentsCreate(a, ok)
  \/ \E err \in {ErrDeclined, ErrNotSucceeded} : PaymentIntentsConfirmFailed(a, err)
  \/ \E oid \in FreshOrderIds : PaymentIntentsConfirmSucceeded(a, oid)
  \/ \E ok \in BOOLEAN : OnPurchase(a, ok)

SpecLive ==
  /\ Init /\ [][Next]_vars
  /\ WF_vars(Tick)
  /\ WF_vars(Cleanup)
  /\ \A a \in CallIds : WF_vars(GatewayAnswers(a))

----------------------------------------------------------------------------
\* Properties

\* A stored session that get would return now
Live(sid) == sid \in DOMAIN sessions /\ now <= sessions[sid].expiresAt

OrdersOf(sid) == {o \in DOMAIN orders : orders[o].sessionId = sid}

\* What an order shows to its reader: the items it refers to, and its totals
OrderView(h, order) == [items |-> Deref(h, order.items), totals |-> order.totals]

\* C1: for every session, at most one Order with that session's id is ever
\* stored in the order store, whatever completeCheckout calls are made on it.
C1_AtMostOneOrderPerSession ==
  \A sid \in SessionIds : Cardinality(OrdersOf(sid)) <= 1

\* C2: completeCheckout or createPaymentLink called on a session whose status
\* is processing fails with the conflict error and issues no gateway request.
C2_ConflictWhileProcessing ==
  \A sid \in SessionIds, a \in CallIds :
    (Live(sid) /\ sessions[sid].status = "processing" /\ calls[a].pc = "idle")
    => /\ CTcompleteCheckout(a, sid).res = ErrConflict
       /\ CTcompleteCheckout(a, sid).st.calls[a].pc = "idle"
       /\ CTcreatePaymentLink(a, sid).res = ErrConflict
       /\ CTcreatePaymentLink(a, sid).st.calls[a].pc = "idle"

\* C3: every Order produced by a completeCheckout has a total equal to the
\* amount that call submitted to the gateway, and items equal to the cart as
\* it was when the amount was submitted, whatever cart edits were interleaved.
C3_OrderMatchesSubmittedAmount ==
  [][\A a \in CallIds, oid \in OrderIds :
       (calls[a].pc = "confirm" /\ calls'[a].pc # "confirm"
        /\ oid \notin DOMAIN orders /\ oid \in DOMAIN orders')
       => /\ orders'[oid].totals.total = calls[a].amount
          /\ Deref(heap', orders'[oid].items) = calls[a].cart]_vars

\* The sum of price x quantity over a session's current item list
RECURSIVE SumPriceTimesQuantity(_, _)
SumPriceTimesQuantity(h, refs) ==
  IF refs = <<>> THEN 0
  ELSE h[Head(refs)].price * h[Head(refs)].quantity
       + SumPriceTimesQuantity(h, Tail(refs))

\* C4: after any sequence of create, addItem, removeItem, updateQuantity and
\* setBuyer calls, successful or failing, every stored session's
\* totals.subtotal equals the sum of price x quantity over its current items.
C4_SubtotalMatchesItems ==
  \A sid \in DOMAIN sessions :
    sessions[sid].totals.subtotal = SumPriceTimesQuantity(heap, sessions[sid].items)

\* C4 witness: product A with quantity 2 at 1999 and product B with quantity 1
\* at 2999 in one cart, subtotal 6997.
C4_Witness ==
  \E sid \in DOMAIN sessions :
    /\ Len(sessions[sid].items) = 2
    /\ heap[sessions[sid].items[1]].quantity = 2
    /\ sessions[sid].totals.subtotal = 6997

\* C5: once an Order has been created, its items (product ids, quantities,
\* prices) and its totals never change, whatever is later done to the session.
C5_OrderNeverChanges ==
  [][\A o \in DOMAIN orders :
       o \in DOMAIN orders'
       /\ OrderView(heap', orders'[o]) = OrderView(heap, orders[o])]_vars

\* C6: at every time strictly after a stored session's expiresAt, get returns
\* not-found and removes the entry, and every session-taking operation fails
\* with the session-not-found error, whatever the stored status; at any time
\* not after expiresAt, get returns the session and leaves it stored.
C6_ExpiredIsNotFound ==
  \A sid \in DOMAIN sessions :
    IF now > sessions[sid].expiresAt
      THEN /\ ~SMget(Store, sid).found
           /\ sid \notin DOMAIN SMget(Store, sid).st.sessions
           /\ \A pid \in ProductArgs, q \in QuantityArgs :
                /\ CTaddToCart(sid, sid, pid, q).res = ErrSession
                /\ CTupdateQuantity(sid, pid, q).res = ErrSession
                /\ CTremoveFromCart(sid, pid).res = ErrSession
           /\ \A b \in BuyerArgs : CTsetBuyer(sid, sid, b).res = ErrSession
           /\ \A status \in StatusArgs :
                SMupdateStatus(Store, sid, status).err = ErrSession
           /\ CTcancelCheckout(sid).res = ErrSession
           /\ \A a \in CallIds :
                /\ CTcreatePaymentLink(a, sid).res = ErrSession
                /\ CTcompleteCheckout(a, sid).res = ErrSession
      ELSE /\ SMget(Store, sid).found
           /\ SMget(Store, sid).st = Store
           /\ CTgetSession(sid).res = Ok

\* C6 witness: a session past its expiresAt is still stored, with a payment
\* status, when an operation is about to read it.
C6_Witness ==
  \E sid \in DOMAIN sessions :
    /\ now > sessions[sid].expiresAt
    /\ sessions[sid].status \in {"processing", "completed", "failed"}

\* C7: completed is terminal: once a session's status is completed, no later
\* step changes it.
C7_CompletedIsTerminal ==
  [][\A sid \in DOMAIN sessions :
       (sessions[sid].status = "completed" /\ sid \in DOMAIN sessions')
       => sessions'[sid].status = "completed"]_vars

\* C8: cancelCheckout on a session whose status is completed, failed or
\* cancelled is rejected with an error and leaves the status unchanged.
C8_CancelRejectedWhenTerminal ==
  \A sid \in SessionIds :
    (Live(sid) /\ sessions[sid].status \in {"completed", "failed", "cancelled"})
    => /\ CTcancelCheckout(sid).res # Ok
       /\ CTcancelCheckout(sid).st.sessions[sid].status = sessions[sid].status

\* What C9 requires of the outcome of a failed gateway answer to call a: the
\* session is failed, no order was stored, onPurchase was not called (the
\* call is over, not waiting for the hook), and the caller got the error.
C9Failed(a, out, err) ==
  /\ out.st.sessions[calls[a].sid].status = "failed"
  /\ out.os = orders
  /\ out.oid = ""
  /\ out.st.calls[a].pc = "idle"
  /\ out.res = err

\* C9: when the gateway rejects, errors or returns a non-succeeded result for
\* a completeCheckout whose session is live, the session's status becomes
\* failed, no Order is stored, the fulfillment hook is not invoked, and the
\* error is propagated to the caller.
C9_GatewayFailureMarksFailed ==
  \A a \in CallIds :
    Live(calls[a].sid) =>
      /\ calls[a].pc = "create" => C9Failed(a, CTcreateResponse(a, FALSE), ErrStripe)
      /\ calls[a].pc = "confirm" =>
           \A err \in {ErrDeclined, ErrNotSucceeded} :
             C9Failed(a, CTconfirmFailed(a, err), err)

\* C9 witness: a completeCheckout is awaiting paymentIntents.confirm on a
\* live session in processing with no order stored, and the gateway's decline
\* of that call leaves the session failed and reaches the caller.
C9_Witness ==
  \E a \in CallIds :
    /\ calls[a].pc = "confirm"
    /\ Live(calls[a].sid)
    /\ sessions[calls[a].sid].status = "processing"
    /\ orders = <<>>
    /\ CTconfirmFailed(a, ErrDeclined).st.sessions[calls[a].sid].status = "failed"
    /\ CTconfirmFailed(a, ErrDeclined).res = ErrDeclined

\* C10: a failed session that has not expired, with a non-empty cart and a
\* buyer email, can start a fresh attempt: completeCheckout is accepted and
\* moves it to processing, and a gateway success for a call on a live session
\* stores an Order for the session and sets its status to completed.
C10_FailedSessionCanRetry ==
  /\ \A sid \in DOMAIN sessions, a \in CallIds :
       (Live(sid) /\ sessions[sid].status = "failed" /\ calls[a].pc = "idle"
        /\ Len(sessions[sid].items) > 0 /\ HasEmail(sessions[sid].buyer))
       => /\ CTcompleteCheckout(a, sid).res = Awaiting
          /\ CTcompleteCheckout(a, sid).st.sessions[sid].status = "processing"
          /\ CTcompleteCheckout(a, sid).st.calls[a].pc \in {"create", "rejected"}
          /\ CTcompleteCheckout(a, sid).st.calls[a].sid = sid
  /\ \A a \in CallIds, oid \in OrderIds :
       (calls[a].pc = "confirm" /\ Live(calls[a].sid))
       => /\ oid \in DOMAIN CTconfirmSucceeded(a, oid).os
          /\ CTconfirmSucceeded(a, oid).os[oid].sessionId = calls[a].sid
          /\ CTconfirmSucceeded(a, oid).oid = oid
          /\ CTconfirmSucceeded(a, oid).st.sessions[calls[a].sid].status = "completed"

\* C10 witness: a live failed session with items and a buyer email, from which
\* a new completeCheckout can start.
C10_Witness ==
  \E sid \in DOMAIN sessions :
    /\ Live(sid)
    /\ sessions[sid].status = "failed"
    /\ Len(sessions[sid].items) > 0
    /\ HasEmail(sessions[sid].buyer)
    /\ \E a \in CallIds : calls[a].pc = "idle"

----------------------------------------------------------------------------
\* What a session shows to its reader in store st
SessionView(st, sid) ==
  [items |-> Deref(st.heap, st.sessions[sid].items),
   totals |-> st.sessions[sid].totals,
   buyer |-> st.sessions[sid].buyer,
   status |-> st.sessions[sid].status]

\* The positions of product pid in the cart of stored session sid
PositionsOf(sid, pid) ==
  {i \in 1..Len(sessions[sid].items) : heap[sessions[sid].items[i]].productId = pid}

\* A failed call left session sid as it was: a live session is still stored,
\* and a session that is still stored shows what it showed before
Untouched(out, sid) ==
  /\ Live(sid) => sid \in DOMAIN out.st.sessions
  /\ sid \in DOMAIN out.st.sessions => SessionView(out.st, sid) = SessionView(Store, sid)

\* C11: every cart or buyer operation that fails with a validation error
\* (session not found, product not found, non-positive quantity in addItem,
\* item not in cart) leaves the targeted session's items, totals, buyer and
\* status as they were; on a live session an unknown product, a non-positive
\* added quantity and a quantity update of an absent product do fail.
C11_ValidationErrorsLeaveSession ==
  \A sid \in DOMAIN sessions, pid \in ProductArgs, q \in QuantityArgs :
    /\ CTaddToCart(sid, sid, pid, q).res # Ok
         => Untouched(CTaddToCart(sid, sid, pid, q), sid)
    /\ CTupdateQuantity(sid, pid, q).res # Ok
         => Untouched(CTupdateQuantity(sid, pid, q), sid)
    /\ CTremoveFromCart(sid, pid).res # Ok
         => Untouched(CTremoveFromCart(sid, pid), sid)
    /\ \A b \in BuyerArgs :
         CTsetBuyer(sid, sid, b).res # Ok => Untouched(CTsetBuyer(sid, sid, b), sid)
    /\ Live(sid) =>
         /\ pid \notin DOMAIN products => CTaddToCart(sid, sid, pid, q).res = ErrProduct
         /\ (pid \in DOMAIN products /\ q <= 0)
              => CTaddToCart(sid, sid, pid, q).res = ErrQuantity
         /\ (q > 0 /\ PositionsOf(sid, pid) = {})
              => CTupdateQuantity(sid, pid, q).res = ErrItem

\* C11 witness: a live session in status ready with an item and a buyer, on
\* which a call with an unknown product or a bad quantity fails.
C11_Witness ==
  \E sid \in DOMAIN sessions :
    /\ Live(sid)
    /\ sessions[sid].status = "ready"
    /\ Len(sessions[sid].items) = 1
    /\ sessions[sid].buyer.defined
    /\ CTaddToCart(sid, sid, "pX", 1).res = ErrProduct

\* C12: completeCheckout and createPaymentLink on a live session with an empty
\* cart fail with the empty-cart error, and on a live session with items but
\* no buyer or a buyer without email fail with the missing-buyer error; in
\* both cases nothing is changed (the status stays) and no gateway call is
\* issued.
C12_EmptyCartOrNoBuyerRejected ==
  \A sid \in DOMAIN sessions, a \in CallIds :
    (Live(sid) /\ calls[a].pc = "idle") =>
      /\ Len(sessions[sid].items) = 0 =>
           /\ CTcompleteCheckout(a, sid) = Out(Store, orders, ErrEmptyCart, "")
           /\ CTcreatePaymentLink(a, sid) = Out(Store, orders, ErrEmptyLink, "")
      /\ (/\ Len(sessions[sid].items) > 0
          /\ (~sessions[sid].buyer.defined \/ sessions[sid].buyer.email = "")) =>
           /\ CTcompleteCheckout(a, sid) = Out(Store, orders, ErrBuyer, "")
           /\ CTcreatePaymentLink(a, sid) = Out(Store, orders, ErrBuyer, "")

\* C12 witness: a live session with an item and a buyer that has no email.
C12_Witness ==
  \E sid \in DOMAIN sessions :
    /\ Live(sid)
    /\ Len(sessions[sid].items) > 0
    /\ sessions[sid].buyer.defined
    /\ sessions[sid].buyer.email = ""

\* C13: addItem of a product already in the cart adds the given quantity to
\* the existing entry and keeps that entry's price as captured on the first
\* add, whatever the catalog price is now; the cart's length and item order
\* and every other entry are unchanged.
C13_MergeKeepsCapturedPrice ==
  \A sid \in DOMAIN sessions, pid \in DOMAIN products, q \in 1..MaxQty :
    Live(sid) =>
      \A i \in PositionsOf(sid, pid) :
        LET out == CTaddToCart(sid, sid, pid, q)
            r == sessions[sid].items[i]
        IN /\ out.res = Ok
           /\ out.st.sessions[sid].items = sessions[sid].items
           /\ out.st.heap[r] = [heap[r] EXCEPT !.quantity = @ + q]
           /\ \A o \in (DOMAIN heap) \ {r} : out.st.heap[o] = heap[o]

\* C13 witness: an entry merged to quantity 2 still carries a price that
\* differs from the product's current catalog price.
C13_Witness ==
  \E sid \in DOMAIN sessions :
    /\ Live(sid)
    /\ \E i \in 1..Len(sessions[sid].items) :
         LET item == heap[sessions[sid].items[i]]
         IN /\ item.quantity = 2
            /\ item.price # products[item.productId].price
            /\ sessions[sid].totals.subtotal >= 2 * item.price

\* C14: removeItem is idempotent: for every live session and product id, a
\* second removeItem leaves the store exactly as the first one left it, and
\* neither call raises an error, whether or not the product is in the cart.
C14_RemoveItemIdempotent ==
  \A sid \in DOMAIN sessions, pid \in ProductArgs :
    Live(sid) =>
      LET once == SMremoveItem(Store, sid, pid)
          twice == SMremoveItem(once.st, sid, pid)
      IN /\ once.err = Ok
         /\ twice.err = Ok
         /\ twice.st = once.st
         /\ SessionView(twice.st, sid) = SessionView(once.st, sid)

\* C14 witness: a live session with two entries, of which a removal takes one
\* and a repeated removal takes nothing more.
C14_Witness ==
  \E sid \in DOMAIN sessions :
    /\ Live(sid)
    /\ Len(sessions[sid].items) = 2
    /\ Len(SMremoveItem(Store, sid, "pA").st.sessions[sid].items) = 1

\* C15: for every session state and product id, in the cart or not,
\* updateQuantity(x, 0) and removeItem(x) give the same resulting store and
\* the same error outcome.
C15_UpdateToZeroIsRemove ==
  \A sid \in SessionIds, pid \in ProductArgs :
    /\ SMupdateQuantity(Store, sid, pid, 0) = SMremoveItem(Store, sid, pid)
    /\ CTupdateQuantity(sid, pid, 0) = CTremoveFromCart(sid, pid)

\* C15 witness: a live session holding product A with quantity 2 beside
\* another entry, where writing a quantity of 0 and removing could differ.
C15_Witness ==
  \E sid \in DOMAIN sessions :
    /\ Live(sid)
    /\ Len(sessions[sid].items) = 2
    /\ \E i \in PositionsOf(sid, "pA") : heap[sessions[sid].items[i]].quantity = 2

\* C16: updateQuantity with a negative quantity, on a live session and for a
\* product in its cart, fails with the invalid-quantity error and leaves the
\* session's items and totals unchanged.
C16_NegativeQuantityRejected ==
  \A sid \in DOMAIN sessions, pid \in ProductArgs :
    (Live(sid) /\ PositionsOf(sid, pid) # {}) =>
      /\ CTupdateQuantity(sid, pid, -1).res = ErrQuantity
      /\ SessionView(CTupdateQuantity(sid, pid, -1).st, sid) = SessionView(Store, sid)

\* C17: updateQuantity with a positive quantity on a live session fails with
\* the item-not-in-cart error and changes nothing when the product is not in
\* the cart; when it is, only that entry's quantity is replaced, its position
\* and price and every other entry are kept, and the totals are those of the
\* new cart.
C17_UpdateQuantityInPlace ==
  \A sid \in DOMAIN sessions, pid \in ProductArgs, q \in 1..MaxQty :
    Live(sid) =>
      LET out == CTupdateQuantity(sid, pid, q) IN
      /\ PositionsOf(sid, pid) = {} => out = Out(Store, orders, ErrItem, "")
      /\ \A i \in PositionsOf(sid, pid) :
           LET r == sessions[sid].items[i] IN
           /\ out.res = Ok
           /\ out.st.sessions[sid].items = sessions[sid].items
           /\ out.st.heap[r] = [heap[r] EXCEPT !.quantity = q]
           /\ \A o \in (DOMAIN heap) \ {r} : out.st.heap[o] = heap[o]
           /\ out.st.sessions[sid].totals.subtotal
                = SumPriceTimesQuantity(out.st.heap, sessions[sid].items)
           /\ out.st.sessions[sid].totals.total
                = SumPriceTimesQuantity(out.st.heap, sessions[sid].items)
           /\ out.st.sessions[sid].status = sessions[sid].status
           /\ out.st.sessions[sid].buyer = sessions[sid].buyer

\* C17 witness: a live session with two entries whose second entry has
\* quantity 2, so that replacing it shows what is kept.
C17_Witness ==
  \E sid \in DOMAIN sessions :
    /\ Live(sid)
    /\ Len(sessions[sid].items) = 2
    /\ heap[sessions[sid].items[2]].quantity = 2
    /\ CTupdateQuantity(sid, heap[sessions[sid].items[2]].productId, 1).res = Ok

\* C18: every session returned by create has status pending, an empty item
\* list, subtotal, tax, shipping, discount and total all zero, no buyer, and
\* expiresAt equal to createdAt plus the configured TTL.
C18_CreatedSessionFields ==
  \A id \in SessionIds :
    LET s == CTcreateSession(id).st.sessions[id] IN
    /\ s.id = id
    /\ s.status = "pending"
    /\ s.items = <<>>
    /\ s.totals.subtotal = 0 /\ s.totals.tax = 0 /\ s.totals.shipping = 0
    /\ s.totals.discount = 0 /\ s.totals.total = 0
    /\ ~s.buyer.defined
    /\ s.createdAt = now
    /\ s.expiresAt = s.createdAt + TTL

\* C18 witness: a session created after the clock has advanced, stored as
\* create returned it.
C18_Witness ==
  \E sid \in DOMAIN sessions :
    /\ sessions[sid].createdAt = 1
    /\ sessions[sid].expiresAt = 1 + TTL
    /\ sessions[sid].status = "pending"
    /\ sessions[sid].items = <<>>
    /\ ~sessions[sid].buyer.defined

\* C19: the id given to a newly created session is never the id of a session
\* that is stored and live, so no step replaces a live session by a newly
\* created one: a live session keeps its creation time and its buyer.
C19_CreateNeverOverwrites ==
  [][\A sid \in DOMAIN sessions :
       (Live(sid) /\ sid \in DOMAIN sessions')
       => /\ sessions'[sid].createdAt = sessions[sid].createdAt
          /\ sessions[sid].buyer.defined => sessions'[sid].buyer.defined]_vars

\* C20: a successful addItem on a session in status pending leaves it in
\* status ready, a successful addItem on a session in any other status leaves
\* the status unchanged, and addItem of a catalog product with a positive
\* quantity on a live session is successful.
C20_AddItemPromotesOnlyPending ==
  \A sid \in DOMAIN sessions, pid \in ProductArgs, q \in 1..MaxQty :
    LET out == CTaddToCart(sid, sid, pid, q) IN
    /\ (Live(sid) /\ pid \in DOMAIN products) => out.res = Ok
    /\ out.res = Ok =>
         out.st.sessions[sid].status =
           IF sessions[sid].status = "pending" THEN "ready"
           ELSE sessions[sid].status

\* C20 witness: a completed session whose cart grew after its order was
\* built (the order's total is one item's price, the session's is two) and
\* whose status is still completed.
C20_Witness ==
  \E sid \in DOMAIN sessions, o \in DOMAIN orders :
    /\ sessions[sid].status = "completed"
    /\ orders[o].sessionId = sid
    /\ orders[o].totals.total = 1999
    /\ sessions[sid].totals.total = 3998

\* C21: when onPurchase fails after the gateway reported success, the Order
\* built for that payment stays stored and getOrder returns it, and the caller
\* of completeCheckout gets an error: the hook's own when the session is live.
C21_HookFailureKeepsOrder ==
  \A a \in CallIds :
    calls[a].pc = "hook" =>
      LET out == CThookResponse(a, FALSE) IN
      /\ out.os = orders
      /\ \E o \in DOMAIN orders :
           /\ orders[o].sessionId = calls[a].sid
           /\ CTgetOrder(out.os, o) = <<orders[o]>>
      /\ out.res \notin {Ok, Awaiting}
      /\ Live(calls[a].sid) => out.res = ErrHook

\* C21 witness: a live session marked failed with its order stored and no
\* call in flight, as a failed hook leaves it.
C21_Witness ==
  \E sid \in DOMAIN sessions, o \in DOMAIN orders :
    /\ Live(sid)
    /\ sessions[sid].status = "failed"
    /\ orders[o].sessionId = sid
    /\ CTgetOrder(orders, o) = <<orders[o]>>
    /\ DOMAIN orders = {o}
    /\ \A a \in CallIds : calls[a].pc = "idle"

\* C22: every session-taking operation called with an id that is not in the
\* session store fails with the session-not-found error (getSession returns
\* null), creates no session under that id and leaves the whole store as it
\* was.
C22_UnknownSessionIsNotFound ==
  \A sid \in SessionIds \ DOMAIN sessions :
    /\ CTgetSession(sid) = Out(Store, orders, "null", "")
    /\ \A pid \in ProductArgs :
         /\ CTremoveFromCart(sid, pid) = Out(Store, orders, ErrSession, "")
         /\ \A q \in QuantityArgs :
              /\ CTaddToCart(sid, sid, pid, q) = Out(Store, orders, ErrSession, "")
              /\ CTupdateQuantity(sid, pid, q) = Out(Store, orders, ErrSession, "")
    /\ \A b \in BuyerArgs : CTsetBuyer(sid, sid, b) = Out(Store, orders, ErrSession, "")
    /\ \A status \in {"pending", "ready", "processing", "completed", "failed",
                      "cancelled", "expired"} :
         SMupdateStatus(Store, sid, status) = [err |-> ErrSession, st |-> Store]
    /\ CTcancelCheckout(sid) = Out(Store, orders, ErrSession, "")
    /\ \A a \in CallIds :
         calls[a].pc = "idle" =>
           /\ CTcreatePaymentLink(a, sid) = Out(Store, orders, ErrSession, "")
           /\ CTcompleteCheckout(a, sid) = Out(Store, orders, ErrSession, "")

\* C22 witness: an id that create has issued is no longer in the store, while
\* an order made under it still is.
C22_Witness ==
  \E sid \in issued, o \in DOMAIN orders :
    /\ sid \notin DOMAIN sessions
    /\ orders[o].sessionId = sid

\* C23: addToCart and setBuyer called without a session id create exactly one
\* new session, under the generated id, and apply the operation to it; called
\* with the id of a live session they create no session and apply the
\* operation to the session with that id.  No other session is touched.
C23_AutoCreateOnlyWithoutId ==
  /\ \A id \in SessionIds :
       /\ \A pid \in DOMAIN products, q \in 1..MaxQty :
            LET out == CTaddToCart(NoId, id, pid, q) IN
            /\ out.res = Ok
            /\ DOMAIN out.st.sessions = (DOMAIN sessions) \cup {id}
            /\ \A o \in (DOMAIN sessions) \ {id} : out.st.sessions[o] = sessions[o]
            /\ out.st.sessions[id].id = id
            /\ out.st.sessions[id].createdAt = now
            /\ out.st.sessions[id].buyer = NoBuyer
            /\ out.st.sessions[id].status = "ready"
            /\ Deref(out.st.heap, out.st.sessions[id].items)
                 = <<[productId |-> pid, quantity |-> q,
                      price |-> products[pid].price,
                      currency |-> products[pid].currency]>>
       /\ \A b \in BuyerArgs :
            LET out == CTsetBuyer(NoId, id, b) IN
            /\ out.res = Ok
            /\ DOMAIN out.st.sessions = (DOMAIN sessions) \cup {id}
            /\ \A o \in (DOMAIN sessions) \ {id} : out.st.sessions[o] = sessions[o]
            /\ out.st.sessions[id].id = id
            /\ out.st.sessions[id].createdAt = now
            /\ out.st.sessions[id].buyer = b
            /\ out.st.sessions[id].items = <<>>
  /\ \A sid \in DOMAIN sessions, id \in SessionIds :
       Live(sid) =>
         /\ \A pid \in DOMAIN products, q \in 1..MaxQty :
              LET out == CTaddToCart(sid, id, pid, q) IN
              /\ out.res = Ok
              /\ DOMAIN out.st.sessions = DOMAIN sessions
              /\ \A o \in (DOMAIN sessions) \ {sid} : out.st.sessions[o] = sessions[o]
              /\ out.st.sessions[sid].id = sid
              /\ out.st.sessions[sid].createdAt = sessions[sid].createdAt
              /\ out.st.sessions[sid].buyer = sessions[sid].buyer
              /\ \E i \in 1..Len(out.st.sessions[sid].items) :
                   out.st.heap[out.st.sessions[sid].items[i]].productId = pid
         /\ \A b \in BuyerArgs :
              LET out == CTsetBuyer(sid, id, b) IN
              /\ out.res = Ok
              /\ DOMAIN out.st.sessions = DOMAIN sessions
              /\ \A o \in (DOMAIN sessions) \ {sid} : out.st.sessions[o] = sessions[o]
              /\ out.st.sessions[sid].id = sid
              /\ out.st.sessions[sid].createdAt = sessions[sid].createdAt
              /\ out.st.sessions[sid].items = sessions[sid].items
              /\ out.st.sessions[sid].buyer = b

\* C23 witness: two live sessions side by side, one holding an item and no
\* buyer, the other a buyer and no item.
C23_Witness ==
  \E s1 \in DOMAIN sessions, s2 \in DOMAIN sessions :
    /\ s1 # s2 /\ Live(s1) /\ Live(s2)
    /\ Len(sessions[s1].items) = 1 /\ ~sessions[s1].buyer.defined
    /\ sessions[s2].items = <<>> /\ sessions[s2].buyer.defined

\* C24: in every reachable session state totals.total equals subtotal + tax +
\* shipping - discount, and tax, shipping and discount are 0, so that total
\* equals subtotal.
C24_TotalFormula ==
  \A sid \in DOMAIN sessions :
    LET t == sessions[sid].totals IN
    /\ t.total = t.subtotal + t.tax + t.shipping - t.discount
    /\ t.tax = 0 /\ t.shipping = 0 /\ t.discount = 0
    /\ t.total = t.subtotal

\* C24 witness: a live session whose total is the price of one of each
\* catalog product.
C24_Witness ==
  \E sid \in DOMAIN sessions :
    /\ Live(sid)
    /\ sessions[sid].totals.total = 1999 + 2999

\* C25: in every reachable session state all cart items have the same
\* currency and totals.currency is that currency.
C25_SingleCurrencyCart ==
  \A sid \in DOMAIN sessions :
    \A i \in 1..Len(sessions[sid].items) :
      heap[sessions[sid].items[i]].currency = sessions[sid].totals.currency

\* The sessions whose expiresAt has not passed
Unexpired == {sid \in DOMAIN sessions : now <= sessions[sid].expiresAt}

\* C26: eviction is idempotent and order-independent: the periodic cleanup
\* leaves exactly the sessions whose expiresAt has not passed, unchanged;
\* cleanup, the eviction in get, and delete, repeated or run in either order,
\* end in the same store; get and cleanup never remove a session whose
\* expiresAt has not passed; none of them raises an error.
C26_EvictionIdempotent ==
  LET swept == SMcleanup(Store) IN
  /\ DOMAIN swept.sessions = Unexpired
  /\ \A sid \in Unexpired : swept.sessions[sid] = sessions[sid]
  /\ SMcleanup(swept) = swept
  /\ \A sid \in SessionIds :
       LET g == SMget(Store, sid) IN
       /\ g.found <=> sid \in Unexpired
       /\ Unexpired \subseteq DOMAIN g.st.sessions
       /\ SMget(g.st, sid).st = g.st
       /\ SMcleanup(g.st) = swept
       /\ SMget(swept, sid).st = swept
       /\ SMdelete(SMdelete(Store, sid), sid) = SMdelete(Store, sid)
       /\ SMcleanup(SMdelete(Store, sid)) = SMdelete(swept, sid)
       /\ \A other \in SessionIds :
            SMget(SMget(Store, other).st, sid).st = SMget(g.st, other).st

\* C26 witness: the store holds a session past its expiresAt beside one that
\* is not.
C26_Witness ==
  \E s1 \in DOMAIN sessions, s2 \in DOMAIN sessions :
    /\ now > sessions[s1].expiresAt
    /\ now <= sessions[s2].expiresAt
    /\ Len(sessions[s2].items) > 0

\* C27: cancelled is terminal: once a session's status is cancelled no later
\* step changes it, a late gateway success included.
C27_CancelledIsTerminal ==
  [][\A sid \in DOMAIN sessions :
       (sessions[sid].status = "cancelled" /\ sid \in DOMAIN sessions')
       => sessions'[sid].status = "cancelled"]_vars

\* C28: a session's status becomes pending only from ready, by a removal that
\* empties the cart; a session in status processing, completed, failed or
\* cancelled is never moved to pending.
C28_PendingOnlyFromReady ==
  [][\A sid \in DOMAIN sessions :
       (/\ sid \in DOMAIN sessions'
        /\ sessions[sid].status # "pending"
        /\ sessions'[sid].status = "pending")
       => /\ sessions[sid].status = "ready"
          /\ Len(sessions[sid].items) > 0
          /\ sessions'[sid].items = <<>>]_vars

\* The calls that are awaiting the gateway
LinkPcs == {"link"}
TokenPcs == {"create", "confirm"}

\* C29: the periodic sweep never evicts a session on which a payment
\* operation is awaiting the gateway, and such a session is found when the
\* gateway responds.
C29_SweepSkipsInFlight ==
  \A a \in CallIds :
    calls[a].pc \in LinkPcs \cup TokenPcs =>
      /\ calls[a].sid \in DOMAIN sessions
           => calls[a].sid \in DOMAIN SMcleanup(Store).sessions
      /\ SMget(Store, calls[a].sid).found

\* C30: the redirect and token strategies are never mixed: a checkout session
\* never has a createPaymentLink and a completeCheckout awaiting the gateway
\* at once.
C30_StrategiesNeverMixed ==
  \A a \in CallIds, b \in CallIds :
    ~(/\ calls[a].pc \in LinkPcs
      /\ calls[b].pc \in TokenPcs
      /\ calls[a].sid = calls[b].sid)

\* C31: initiating payment by either strategy moves a ready session to
\* processing: once createPaymentLink on a live session has succeeded the
\* session's status is processing, and while a completeCheckout is awaiting
\* the gateway its stored session's status is processing.
C31_PaymentInitiationSetsProcessing ==
  \A a \in CallIds :
    /\ (calls[a].pc \in LinkPcs /\ Live(calls[a].sid)) =>
         CTlinkResponse(a, TRUE).st.sessions[calls[a].sid].status = "processing"
    /\ (calls[a].pc \in TokenPcs /\ calls[a].sid \in DOMAIN sessions) =>
         sessions[calls[a].sid].status = "processing"

\* C32: in every reachable session state no two cart items have the same
\* productId.
C32_NoDuplicateProducts ==
  \A sid \in DOMAIN sessions :
    \A i \in 1..Len(sessions[sid].items), j \in 1..Len(sessions[sid].items) :
      heap[sessions[sid].items[i]].productId = heap[sessions[sid].items[j]].productId
        => i = j

\* C32 witness: a cart in which both catalog products were added twice holds
\* two entries of quantity 2.
C32_Witness ==
  \E sid \in DOMAIN sessions :
    /\ Len(sessions[sid].items) = 2
    /\ heap[sessions[sid].items[1]].quantity = 2
    /\ heap[sessions[sid].items[2]].quantity = 2

\* Session other is stored and shows the same after outcome out as before
Bystander(out, other) ==
  /\ other \in DOMAIN out.st.sessions
  /\ out.st.sessions[other] = sessions[other]
  /\ SessionView(out.st, other) = SessionView(Store, other)

\* C33: operations on different sessions are independent: a cart edit,
\* setBuyer, getSession (with its eviction), delete, updateStatus, cancel,
\* payment start or payment outcome applied to one session leaves every other
\* stored session in the store with the same items, totals, buyer and status.
C33_SessionsIndependent ==
  \A sid \in SessionIds : \A other \in (DOMAIN sessions) \ {sid} :
    /\ Bystander(CTgetSession(sid), other)
    /\ Bystander(Out(SMdelete(Store, sid), orders, Ok, ""), other)
    /\ \A status \in StatusArgs :
         Bystander(Out(SMupdateStatus(Store, sid, status).st, orders, Ok, ""), other)
    /\ Bystander(CTcancelCheckout(sid), other)
    /\ \A pid \in ProductArgs :
         /\ Bystander(CTremoveFromCart(sid, pid), other)
         /\ \A q \in QuantityArgs :
              /\ Bystander(CTaddToCart(sid, sid, pid, q), other)
              /\ Bystander(CTupdateQuantity(sid, pid, q), other)
    /\ \A b \in BuyerArgs : Bystander(CTsetBuyer(sid, sid, b), other)
    /\ \A a \in CallIds :
         /\ calls[a].pc = "idle" =>
              /\ Bystander(CTcompleteCheckout(a, sid), other)
              /\ Bystander(CTcreatePaymentLink(a, sid), other)
         /\ (calls[a].pc = "create" /\ calls[a].sid = sid) =>
              \A ok \in BOOLEAN : Bystander(CTcreateResponse(a, ok), other)
         /\ (calls[a].pc = "confirm" /\ calls[a].sid = sid) =>
              /\ Bystander(CTconfirmFailed(a, ErrDeclined), other)
              /\ \A oid \in OrderIds : Bystander(CTconfirmSucceeded(a, oid), other)
         /\ (calls[a].pc = "hook" /\ calls[a].sid = sid) =>
              \A ok \in BOOLEAN : Bystander(CThookResponse(a, ok), other)

\* C33 witness: a session past its expiresAt with a payment awaiting the
\* gateway is stored beside a live session that holds an item.
C33_Witness ==
  \E sid \in DOMAIN sessions, other \in DOMAIN sessions, a \in CallIds :
    /\ sid # other
    /\ calls[a].pc = "confirm" /\ calls[a].sid = sid
    /\ now > sessions[sid].expiresAt
    /\ Live(other)
    /\ Len(sessions[other].items) = 1

\* C34: a session's id, createdAt and expiresAt are fixed at creation: no
\* step changes them on a stored session, and expiresAt stays createdAt plus
\* the TTL.
C34_LifetimeFixedAtCreation ==
  [][\A sid \in DOMAIN sessions :
       sid \in DOMAIN sessions' =>
         /\ sessions'[sid].id = sessions[sid].id
         /\ sessions'[sid].createdAt = sessions[sid].createdAt
         /\ sessions'[sid].expiresAt = sessions[sid].expiresAt
         /\ sessions'[sid].expiresAt = sessions'[sid].createdAt + TTL]_vars

\* C34 witness: a session created at time 0 has been taken to completed at a
\* later time and still expires at the TTL.
C34_Witness ==
  \E sid \in DOMAIN sessions :
    /\ sessions[sid].createdAt = 0
    /\ now = 1
    /\ sessions[sid].status = "completed"
    /\ sessions[sid].expiresAt = TTL
    /\ \E a \in CallIds : calls[a].pc = "hook" /\ calls[a].sid = sid

\* C35: no payment attempt is left unresolved: every session that is in
\* status processing is eventually in status completed, failed or cancelled.
C35_ProcessingResolves ==
  \A sid \in PaySessionIds :
    (sid \in DOMAIN sessions /\ sessions[sid].status = "processing")
    ~> (sid \in DOMAIN sessions
        /\ sessions[sid].status \in {"completed", "failed", "cancelled"})

\* C36: an Order is created only when the gateway reports succeeded, for a
\* session that has a buyer with an email and no Order yet: a gateway failure
\* stores no order, and a gateway success for a session that already has an
\* Order, or whose buyer has no email, fails and stores none.
C36_NoDuplicateOrderAttempt ==
  \A a \in CallIds :
    /\ calls[a].pc = "create" => CTcreateResponse(a, FALSE).os = orders
    /\ calls[a].pc = "confirm" =>
         /\ \A err \in {ErrDeclined, ErrNotSucceeded} :
              CTconfirmFailed(a, err).os = orders
         /\ \A oid \in FreshOrderIds :
              (\/ OrdersOf(calls[a].sid) # {}
               \/ ~Held(Store, a).buyer.defined
               \/ Held(Store, a).buyer.email = "")
              => /\ CTconfirmSucceeded(a, oid).os = orders
                 /\ CTconfirmSucceeded(a, oid).res \notin {Ok, Awaiting}

\* C37: under any sequence of CommerceTools operations a stored session with
\* status pending has an empty cart and a stored session with status ready
\* has a non-empty cart.
C37_StatusMatchesCart ==
  \A sid \in DOMAIN sessions :
    /\ sessions[sid].status = "pending" => sessions[sid].items = <<>>
    /\ sessions[sid].status = "ready" => Len(sessions[sid].items) > 0

\* C37 witness: a live session with a buyer is back in pending with an empty
\* cart and zero total after its order was made.
C37_Witness ==
  \E sid \in DOMAIN sessions :
    /\ Live(sid)
    /\ sessions[sid].status = "pending"
    /\ sessions[sid].items = <<>>
    /\ sessions[sid].totals.total = 0
    /\ OrdersOf(sid) # {}

\* C38: whenever a stored session's status is completed, an Order with that
\* session's id as sessionId is stored, whoever wrote the status.
C38_CompletedHasOrder ==
  \A sid \in DOMAIN sessions :
    sessions[sid].status = "completed" =>
      \E o \in DOMAIN orders : orders[o].sessionId = sid

\* C39: setBuyer on a live session succeeds and replaces only the buyer: the
\* session's items, status, subtotal and total are the same after the call as
\* before it.
C39_SetBuyerOnlyBuyer ==
  \A sid \in DOMAIN sessions, b \in BuyerArgs :
    Live(sid) =>
      LET out == CTsetBuyer(sid, sid, b) IN
      /\ out.res = Ok
      /\ out.st.sessions[sid].buyer = b
      /\ out.st.sessions[sid].items = sessions[sid].items
      /\ Deref(out.st.heap, out.st.sessions[sid].items) = Deref(heap, sessions[sid].items)
      /\ out.st.sessions[sid].status = sessions[sid].status
      /\ out.st.sessions[sid].totals.subtotal = sessions[sid].totals.subtotal
      /\ out.st.sessions[sid].totals.total = sessions[sid].totals.total

\* C39 witness: a live session in status ready holds an item of quantity 2
\* and a buyer with an email.
C39_Witness ==
  \E sid \in DOMAIN sessions :
    /\ Live(sid)
    /\ sessions[sid].status = "ready"
    /\ sessions[sid].buyer.email = "a@example.com"
    /\ sessions[sid].totals.subtotal = 3998

\* C40: an addToCart call that fails for an unknown product or a
\* non-positive quantity leaves the set of stored sessions unchanged, also
\* when it is called without a session id.
C40_FailedAddLeavesNoSession ==
  \A id \in SessionIds, pid \in ProductArgs, q \in QuantityArgs :
    /\ CTaddToCart(NoId, id, pid, q).res \in {ErrProduct, ErrQuantity}
         => CTaddToCart(NoId, id, pid, q).st.sessions = sessions
    /\ CTaddToCart(id, id, pid, q).res \in {ErrProduct, ErrQuantity}
         => CTaddToCart(id, id, pid, q).st.sessions = sessions

====
